---- MODULE Spec2Model ----
(***************************************************************************)
(* The annual draft of core/draft.js: order generation (genOrder,          *)
(* genOrderFantasy), the rookie scale (getRookieSalaries), pick resolution *)
(* (selectPlayer) and the autoplay loop (untilUserOrEnd), over an          *)
(* IndexedDB-like store whose transactions commit in their oncomplete.     *)
(***************************************************************************)
EXTENDS Integers, Sequences, FiniteSets, TLC

\* ------------------------------------------------------------------ bounds
\* League size of the draft-run specification (Spec).
RunTeams == 2
\* Prospects in the players store of the draft-run specification.
NumProspects == 4
\* Largest value of floor(|gauss(0, 2)|) the draft-run specification draws.
MaxSelection == 2
\* League sizes of the selectPlayer / rookie-scale specification (SpecSelect).
MinTeams == 2
MaxTeams == 40
\* Largest league of the fantasy-order specification (SpecFantasy).
FantasyTeams == 3
\* Seasons after Season the genPlayers specification (SpecGen) is called in.
MaxSeasons == 2

\* ------------------------------------------------- globals.js (not in src)
\* g.PLAYER pool tags and g.PHASE values.
FREE_AGENT == -1
UNDRAFTED == -2
UNDRAFTED_2 == -4
UNDRAFTED_3 == -5
UNDRAFTED_FANTASY_TEMP == -6
FANTASY_DRAFT == -1
REGULAR_SEASON == 1
PLAYOFFS == 3
DRAFT == 5
AFTER_DRAFT == 6
FREE_AGENCY == 8
\* nextPhase: null
NoPhase == -99

\* The season every specification runs in (g.season).
Season == 2013

\* ---------------------------------------------------------------- helpers
\* Array.prototype.shift / splice(index, 1) on a 1-based sequence; seq[k+1]
\* is the JavaScript element k.
\* splice that removes nothing.
SpliceNothing(s, k) == s

RemoveAt(s, k) == [j \in 1 .. (Len(s) - 1) |-> IF j <= k THEN s[j] ELSE s[j + 1]]

\* Array.prototype.reverse
Reverse(s) == [j \in 1 .. Len(s) |-> s[Len(s) + 1 - j]]

Range(s) == {s[j] : j \in 1 .. Len(s)}

\* ------------------------------------------------------- getRookieSalaries
DefaultRookieSalaries ==
    <<5000, 4500, 4000, 3500, 3000, 2750, 2500, 2250, 2000, 1900,
      1800, 1700, 1600, 1500, 1400, 1300, 1200, 1100, 1000, 1000,
      1000, 1000, 1000, 1000, 1000, 1000, 1000, 1000, 1000, 1000,
      500, 500, 500, 500, 500, 500, 500, 500, 500, 500,
      500, 500, 500, 500, 500, 500, 500, 500, 500, 500,
      500, 500, 500, 500, 500, 500, 500, 500, 500, 500>>

\* while (g.numTeams * 2 > rookieSalaries.length) rookieSalaries.push(500)
RECURSIVE PushMin(_, _)
PushMin(s, n) == IF n * 2 > Len(s) THEN PushMin(Append(s, 500), n) ELSE s

\* while (g.numTeams * 2 < rookieSalaries.length) rookieSalaries.pop()
\* One pass of the loop on the array v; v is bound to the value of s, so
\* that each pass evaluates the array once.
RECURSIVE PopSmallest(_, _)
PopSmallest(s, n) ==
    LET pop(v) == IF n * 2 < Len(v) THEN PopSmallest(SubSeq(v, 1, Len(v) - 1), n) ELSE v
    IN  CHOOSE r \in {pop(v) : v \in {s}} : TRUE

\* getRookieSalaries without the loop that adds min contracts.
getRookieSalariesNoPush(n) == PopSmallest(DefaultRookieSalaries, n)

getRookieSalaries(n) == PopSmallest(PushMin(DefaultRookieSalaries, n), n)

\* ------------------------------------------------------------ selectPlayer
\* A pick object: {round, pick, tid, originalTid}.
Pick(r, k, t, o) == [round |-> r, pick |-> k, tid |-> t, originalTid |-> o]

NoPick == Pick(0, 0, -1, -1)

\* selectPlayer with i = pick.pick - 1, the round left out of the index.
SelectPlayerUpdateNoRound(p, aPick, ph, n) ==
    LET drafted == [p EXCEPT !.tid = aPick.tid]
        stamped ==
            IF ph # FANTASY_DRAFT
            THEN [drafted EXCEPT !.draft =
                     [round |-> aPick.round, pick |-> aPick.pick, tid |-> aPick.tid,
                      year |-> Season, originalTid |-> aPick.originalTid,
                      pot |-> p.pot, ovr |-> p.ovr, skills |-> p.skills]]
            ELSE drafted
        i == aPick.pick - 1
        years == 4 - aPick.round
        signed ==
            IF ph # FANTASY_DRAFT
            THEN [stamped EXCEPT !.contract =
                     [amount |-> getRookieSalaries(n)[i + 1], exp |-> Season + years]]
            ELSE stamped
    IN  IF ph = FANTASY_DRAFT /\ ph <= PLAYOFFS
        THEN [signed EXCEPT !.stats = @ + 1]
        ELSE signed

\* selectPlayer giving the prospect to the pick's original team.
SelectPlayerUpdateOriginalTid(p, aPick, ph, n) ==
    LET drafted == [p EXCEPT !.tid = aPick.originalTid]
        stamped ==
            IF ph # FANTASY_DRAFT
            THEN [drafted EXCEPT !.draft =
                     [round |-> aPick.round, pick |-> aPick.pick, tid |-> aPick.tid,
                      year |-> Season, originalTid |-> aPick.originalTid,
                      pot |-> p.pot, ovr |-> p.ovr, skills |-> p.skills]]
            ELSE drafted
        i == aPick.pick - 1 + n * (aPick.round - 1)
        years == 4 - aPick.round
        signed ==
            IF ph # FANTASY_DRAFT
            THEN [stamped EXCEPT !.contract =
                     [amount |-> getRookieSalaries(n)[i + 1], exp |-> Season + years]]
            ELSE stamped
    IN  IF ph = FANTASY_DRAFT /\ ph <= PLAYOFFS
        THEN [signed EXCEPT !.stats = @ + 1]
        ELSE signed

\* The record cursor.update(p) writes for player p drafted with `aPick` in
\* phase `ph` of a league of n teams.  player.setContract(p, c, true) is
\* taken to store c as p.contract, player.addStatsRow(p) to add one row.
SelectPlayerUpdate(p, aPick, ph, n) ==
    LET drafted == [p EXCEPT !.tid = aPick.tid]
        stamped ==
            IF ph # FANTASY_DRAFT
            THEN [drafted EXCEPT !.draft =
                     [round |-> aPick.round, pick |-> aPick.pick, tid |-> aPick.tid,
                      year |-> Season, originalTid |-> aPick.originalTid,
                      pot |-> p.pot, ovr |-> p.ovr, skills |-> p.skills]]
            ELSE drafted
        i == aPick.pick - 1 + n * (aPick.round - 1)
        years == 4 - aPick.round
        signed ==
            IF ph # FANTASY_DRAFT
            THEN [stamped EXCEPT !.contract =
                     [amount |-> getRookieSalaries(n)[i + 1], exp |-> Season + years]]
            ELSE stamped
    IN  IF ph = FANTASY_DRAFT /\ ph <= PLAYOFFS
        THEN [signed EXCEPT !.stats = @ + 1]
        ELSE signed

\* ------------------------------------------------------------------- state
VARIABLES
    numTeams,    \* g.numTeams
    userTid,     \* g.userTid
    phase,       \* g.phase
    nextPhase,   \* g.nextPhase
    players,     \* the players object store: pid -> record
    storedOrder, \* the draftOrder object store, record rid 0
    pc,          \* where the running function is
    caller,      \* who called selectPlayer: "auto" (untilUserOrEnd) or "user"
    playersAll,  \* untilUserOrEnd: ranked list of undrafted pids
    draftOrder,  \* the function's working copy of the order
    pids,        \* untilUserOrEnd: pids drafted during this call
    pick,        \* the pick being resolved
    selection,   \* untilUserOrEnd: index drawn for the current pick
    pid,         \* the player being drafted
    txPlayer,    \* selectPlayer: the record its open transaction will commit
    standings,   \* the teams store: tid -> [winp, playoffRoundsWon] of g.season
    draftPicks,  \* the draftPicks object store: records [season, originalTid, round, tid]
    teams,       \* genOrder: the array of teams (their tids), as sorted
    firstThree,  \* genOrder: indexes into teams of the lottery winners
    txOpen,      \* genOrder: its read-write transactions not yet complete
    draw,        \* the lottery draw being scanned
    scanI,       \* the index i the lottery scan ends with
    position,    \* genOrderFantasy: the slot asked for the user's team (0: none)
    tids,        \* genOrderFantasy: the shuffled list of tids
    shuffles,    \* genOrderFantasy: i, the re-shuffles done
    cbArgs,      \* arguments of each call of the current function's callback
    resolved,    \* history: every committed resolution [pick, pid, by]
    order0,      \* history: the order the draft started with
    runStart,    \* history: the order the current untilUserOrEnd call read
    season,      \* genPlayers: g.season
    startingSeason, \* genPlayers: g.startingSeason
    genArgs,     \* genPlayers: its arguments [ot, tid, scoutingRank, numPlayers]
    generated    \* genPlayers: [tid, baseAge, draftYear] of each player.generate call

globals == <<numTeams, userTid, phase, nextPhase>>
store == <<players, storedOrder>>
locals == <<caller, playersAll, draftOrder, pids, pick, selection, pid, txPlayer>>
history == <<cbArgs, resolved, order0, runStart>>
league == <<standings, draftPicks>>
lottery == <<teams, firstThree, txOpen>>
scan == <<draw, scanI>>
fantasy == <<position, tids, shuffles>>
generation == <<season, startingSeason, genArgs, generated>>
ordering == <<league, lottery, scan, fantasy, generation>>
vars == <<globals, store, pc, locals, history, ordering>>

\* The record player.generate leaves in p.draft and p.contract before a draft.
NoDraft ==
    [round |-> 0, pick |-> 0, tid |-> -1, year |-> Season, originalTid |-> -1,
     pot |-> 0, ovr |-> 0, skills |-> <<>>]

Prospect(id, tag) ==
    [tid |-> tag,
     value |-> IF id % 2 = 1 THEN id + NumProspects ELSE id,
     pot |-> 50 + id, ovr |-> 40 + id, skills |-> <<"3">>,
     draft |-> NoDraft,
     contract |-> [amount |-> 500, exp |-> Season + 1],
     stats |-> 0]

NoPlayer == Prospect(0, UNDRAFTED)

\* player.value(b) - player.value(a): best prospect first.
RECURSIVE SortByValue(_, _)
SortByValue(S, ps) ==
    IF S = {} THEN <<>>
    ELSE LET best == CHOOSE x \in S : \A y \in S : ps[x].value >= ps[y].value
         IN  <<best>> \o SortByValue(S \ {best}, ps)

LocalsIdle ==
    /\ caller = "none"
    /\ playersAll = <<>>
    /\ draftOrder = <<>>
    /\ pids = <<>>
    /\ pick = NoPick
    /\ selection = 0
    /\ pid = 0
    /\ txPlayer = NoPlayer

\* ------------------------------------------------- the draft in progress
\* Orders genOrder can have stored for n teams: two rounds of n picks, each
\* pick kept by its original team or traded to the next one.
StandardOrders(n) ==
    LET slots == {1, 2} \X (1 .. n)
        orig(r, k) == IF r = 1 THEN k - 1 ELSE n - k
        at(j) == <<((j - 1) \div n) + 1, ((j - 1) % n) + 1>>
    IN  {[j \in 1 .. 2 * n |->
             Pick(at(j)[1], at(j)[2],
                  IF at(j) \in traded THEN (orig(at(j)[1], at(j)[2]) + 1) % n
                  ELSE orig(at(j)[1], at(j)[2]),
                  orig(at(j)[1], at(j)[2]))] : traded \in SUBSET slots}

\* The last round of an order genOrderFantasy stored for n teams.
FantasyTails(n) ==
    {[j \in 1 .. n |-> Pick(12, j, (j + s) % n, (j + s) % n)] : s \in 0 .. n - 1}

LotteryIdle == teams = <<>> /\ firstThree = <<>> /\ txOpen = {}

ScanIdle == draw = 0 /\ scanI = 0

FantasyIdle == position = 0 /\ tids = <<>> /\ shuffles = 0

\* An argument passed as null.
Null == -1

GenerationIdle ==
    /\ season = Season
    /\ startingSeason = Season
    /\ genArgs = [ot |-> FALSE, tid |-> UNDRAFTED, scoutingRank |-> Null, numPlayers |-> Null]
    /\ generated = <<>>

\* Nothing of the league's standings and pick ownership is read by a draft
\* in progress.
OrderingIdle ==
    /\ standings = <<>>
    /\ draftPicks = {}
    /\ LotteryIdle
    /\ ScanIdle
    /\ FantasyIdle
    /\ GenerationIdle

HistoryIdle == cbArgs = <<>> /\ resolved = <<>> /\ order0 = <<>> /\ runStart = <<>>

InitRun ==
    /\ OrderingIdle
    /\ numTeams = RunTeams
    /\ userTid = 0
    /\ phase \in {DRAFT, FANTASY_DRAFT}
    /\ nextPhase = IF phase = FANTASY_DRAFT THEN REGULAR_SEASON ELSE NoPhase
    /\ players =
          [id \in 1 .. NumProspects |->
              Prospect(id, IF phase = FANTASY_DRAFT /\ id = NumProspects
                           THEN UNDRAFTED_FANTASY_TEMP ELSE UNDRAFTED)]
    /\ storedOrder \in IF phase = FANTASY_DRAFT THEN FantasyTails(numTeams)
                       ELSE StandardOrders(numTeams)
    /\ pc = "idle"
    /\ LocalsIdle
    /\ cbArgs = <<>>
    /\ resolved = <<>>
    /\ order0 = storedOrder
    /\ runStart = <<>>

\* ---------------------------------------------------------- untilUserOrEnd
InDraft == phase \in {DRAFT, FANTASY_DRAFT}

AtRest == pc \in {"idle", "done", "failed"}

\* untilUserOrEnd(cb) is called: pids = [], the players read is issued.
UntilUserOrEnd ==
    /\ AtRest
    /\ InDraft
    /\ pc' = "getPlayers"
    /\ caller' = "auto"
    /\ playersAll' = <<>>
    /\ draftOrder' = <<>>
    /\ pids' = <<>>
    /\ pick' = NoPick
    /\ selection' = 0
    /\ pid' = 0
    /\ txPlayer' = NoPlayer
    /\ cbArgs' = <<>>
    /\ runStart' = <<>>
    /\ UNCHANGED <<globals, store, resolved, order0, ordering>>

\* index("tid").getAll(g.PLAYER.UNDRAFTED).onsuccess: sort, then getOrder.
GetPlayersSuccess ==
    /\ pc = "getPlayers"
    /\ playersAll' =
          SortByValue({id \in DOMAIN players : players[id].tid = UNDRAFTED}, players)
    /\ pc' = "getOrder"
    /\ UNCHANGED <<globals, store, caller, draftOrder, pids, pick, selection, pid,
                   txPlayer, history, ordering>>

\* cbAfterDoneAuto(draftOrder, pids): setOrder opens its transaction.
CbAfterDoneAuto(order) ==
    /\ draftOrder' = order
    /\ pc' = "setOrder"
    /\ UNCHANGED <<pick, selection, pid, txPlayer>>

\* autoSelectPlayer without draftOrder.unshift(pick): the user's pick is lost.
AutoSelectPlayerNoUnshift(order, pool) ==
    IF Len(order) > 0
    THEN IF Head(order).tid = userTid
         THEN CbAfterDoneAuto(Tail(order))
         ELSE \E sel \in 0 .. MaxSelection :
                 /\ pick' = Head(order)
                 /\ draftOrder' = Tail(order)
                 /\ selection' = sel
                 /\ txPlayer' = NoPlayer
                 /\ IF sel < Len(pool)
                    THEN pid' = pool[sel + 1] /\ pc' = "selectCursor"
                    ELSE pid' = pid /\ pc' = "failed"
    ELSE CbAfterDoneAuto(order)

\* autoSelectPlayer without draftOrder.shift(): the head pick is read and
\* left in the queue.
AutoSelectPlayerNoShift(order, pool) ==
    IF Len(order) > 0
    THEN IF Head(order).tid = userTid
         THEN CbAfterDoneAuto(order)
         ELSE \E sel \in 0 .. MaxSelection :
                 /\ pick' = Head(order)
                 /\ draftOrder' = order
                 /\ selection' = sel
                 /\ txPlayer' = NoPlayer
                 /\ IF sel < Len(pool)
                    THEN pid' = pool[sel + 1] /\ pc' = "selectCursor"
                    ELSE pid' = pid /\ pc' = "failed"
    ELSE CbAfterDoneAuto(order)

\* autoSelectPlayer() on the working order `order` and ranked pool `pool`.
\* playersAll[selection] is undefined for selection >= pool.length, and
\* reading its pid throws: the call stops there, with nothing persisted.
AutoSelectPlayer(order, pool) ==
    IF Len(order) > 0
    THEN IF Head(order).tid = userTid
         THEN CbAfterDoneAuto(order)
         ELSE \E sel \in 0 .. MaxSelection :
                 /\ pick' = Head(order)
                 /\ draftOrder' = Tail(order)
                 /\ selection' = sel
                 /\ txPlayer' = NoPlayer
                 /\ IF sel < Len(pool)
                    THEN pid' = pool[sel + 1] /\ pc' = "selectCursor"
                    ELSE pid' = pid /\ pc' = "failed"
    ELSE CbAfterDoneAuto(order)

\* getOrder's onsuccess: draftOrder is the stored order; autoSelectPlayer().
GetOrderSuccess ==
    /\ pc = "getOrder"
    /\ runStart' = storedOrder
    /\ AutoSelectPlayer(storedOrder, playersAll)
    /\ UNCHANGED <<globals, store, caller, playersAll, pids, cbArgs, resolved, order0, ordering>>

\* The draft view's handler of the "draft" button (not in this file): it
\* takes the head pick, the user's turn, and calls selectPlayer(pick, pid).
UserDraft(id) ==
    /\ AtRest
    /\ InDraft
    /\ Len(storedOrder) > 0
    /\ Head(storedOrder).tid = userTid
    /\ pc' = "selectCursor"
    /\ caller' = "user"
    /\ pick' = Head(storedOrder)
    /\ draftOrder' = Tail(storedOrder)
    /\ pid' = id
    /\ playersAll' = <<>>
    /\ pids' = <<>>
    /\ selection' = 0
    /\ txPlayer' = NoPlayer
    /\ cbArgs' = <<>>
    /\ runStart' = <<>>
    /\ UNCHANGED <<globals, store, resolved, order0, ordering>>

\* selectPlayer: openCursor(pid).onsuccess.  For a pid the store does not
\* hold the cursor is null and reading cursor.value throws, which aborts
\* the transaction: oncomplete never fires.
SelectPlayerCursor ==
    /\ pc = "selectCursor"
    /\ IF pid \in DOMAIN players
       THEN /\ txPlayer' = SelectPlayerUpdate(players[pid], pick, phase, numTeams)
            /\ pc' = "selectCommit"
       ELSE /\ txPlayer' = txPlayer
            /\ pc' = "failed"
    /\ UNCHANGED <<globals, store, caller, playersAll, draftOrder, pids, pick,
                   selection, pid, history, ordering>>

\* The draft view's callback of selectPlayer: it saves the order without
\* the pick it took.
UserAfterSelect ==
    /\ storedOrder' = draftOrder
    /\ pc' = "done"
    /\ cbArgs' = <<pid>>
    /\ UNCHANGED <<playersAll, draftOrder, pids, pick, selection, pid, txPlayer>>

\* selectPlayer: tx.oncomplete, the update is committed, then cb(pid).  For
\* untilUserOrEnd: pids.push(pid), playersAll.splice(selection, 1) and
\* autoSelectPlayer() for the next pick.
SelectPlayerComplete ==
    /\ pc = "selectCommit"
    /\ players' = [players EXCEPT ![pid] = txPlayer]
    /\ resolved' = Append(resolved, [pick |-> pick, pid |-> pid, by |-> caller])
    /\ IF caller = "auto"
       THEN /\ pids' = Append(pids, pid)
            /\ playersAll' = RemoveAt(playersAll, selection)
            /\ AutoSelectPlayer(draftOrder, RemoveAt(playersAll, selection))
            /\ UNCHANGED <<storedOrder, cbArgs>>
       ELSE UserAfterSelect
    /\ UNCHANGED <<globals, caller, order0, runStart, ordering>>

\* cbAfterDoneAuto without its test of draftOrder.length: the draft is
\* always taken to be over.
SetOrderCompleteAlwaysOver ==
    /\ pc = "setOrder"
    /\ storedOrder' = draftOrder
    /\ pc' = IF phase = FANTASY_DRAFT THEN "freeAgents" ELSE "newPhase"
    /\ UNCHANGED <<globals, players, locals, history, ordering>>

\* setOrder's tx.oncomplete in cbAfterDoneAuto: the order is stored; then
\* the end of the draft, or (the user's pick) setGameAttributes.
SetOrderComplete ==
    /\ pc = "setOrder"
    /\ storedOrder' = draftOrder
    /\ pc' = IF Len(draftOrder) = 0
             THEN IF phase = FANTASY_DRAFT THEN "freeAgents" ELSE "newPhase"
             ELSE "setAttributes"
    /\ UNCHANGED <<globals, players, locals, history, ordering>>

\* season.newPhase(g.PHASE.AFTER_DRAFT, cb) has run: cb(pids).
NewPhaseDone ==
    /\ pc = "newPhase"
    /\ phase' = AFTER_DRAFT
    /\ cbArgs' = Append(cbArgs, pids)
    /\ pc' = "done"
    /\ UNCHANGED <<numTeams, userTid, nextPhase, store, locals, resolved, order0, runStart, ordering>>

\* db.setGameAttributes({lastDbChange}, cb) has run: cb(pids).
SetAttributesDone ==
    /\ pc = "setAttributes"
    /\ cbArgs' = Append(cbArgs, pids)
    /\ pc' = "done"
    /\ UNCHANGED <<globals, store, locals, resolved, order0, runStart, ordering>>

\* The free-agent cursor running over the parked players as well.
FantasyFreeAgentsAndParked ==
    /\ pc = "freeAgents"
    /\ players' = [id \in DOMAIN players |->
                      IF players[id].tid \in {UNDRAFTED, UNDRAFTED_FANTASY_TEMP}
                      THEN [players[id] EXCEPT !.tid = FREE_AGENT]
                      ELSE players[id]]
    /\ pc' = "swapBack"
    /\ UNCHANGED <<globals, storedOrder, locals, history, ordering>>

\* Fantasy draft over: the cursor over index tid = UNDRAFTED has passed
\* every undrafted player to player.addToFreeAgents.
FantasyFreeAgents ==
    /\ pc = "freeAgents"
    /\ players' = [id \in DOMAIN players |->
                      IF players[id].tid = UNDRAFTED
                      THEN [players[id] EXCEPT !.tid = FREE_AGENT]
                      ELSE players[id]]
    /\ pc' = "swapBack"
    /\ UNCHANGED <<globals, storedOrder, locals, history, ordering>>

\* The cursor over index tid = UNDRAFTED_FANTASY_TEMP has put the normal
\* draft class back.
FantasySwapBack ==
    /\ pc = "swapBack"
    /\ players' = [id \in DOMAIN players |->
                      IF players[id].tid = UNDRAFTED_FANTASY_TEMP
                      THEN [players[id] EXCEPT !.tid = UNDRAFTED]
                      ELSE players[id]]
    /\ pc' = "setPhase"
    /\ UNCHANGED <<globals, storedOrder, locals, history, ordering>>

\* db.setGameAttributes({phase: g.nextPhase, nextPhase: null}) has run, the
\* ui is updated: cb(pids).
FantasySetPhase ==
    /\ pc = "setPhase"
    /\ phase' = nextPhase
    /\ nextPhase' = NoPhase
    /\ cbArgs' = Append(cbArgs, pids)
    /\ pc' = "done"
    /\ UNCHANGED <<numTeams, userTid, store, locals, resolved, order0, runStart, ordering>>

NextRun ==
    \/ UntilUserOrEnd
    \/ GetPlayersSuccess
    \/ GetOrderSuccess
    \/ \E id \in 1 .. NumProspects + 1 : UserDraft(id)
    \/ SelectPlayerCursor
    \/ SelectPlayerComplete
    \/ SetOrderComplete
    \/ NewPhaseDone
    \/ SetAttributesDone
    \/ FantasyFreeAgents
    \/ FantasySwapBack
    \/ FantasySetPhase

Spec == InitRun /\ [][NextRun]_vars

\* ----------------------------------------------------------------- genOrder
Chances == <<250, 199, 156, 119, 88, 63, 43, 28, 17, 11, 8, 7, 6, 5>>

\* for (i = 1; i < chances.length; i++) chances[i] = chances[i] + chances[i - 1]
RECURSIVE CumSum(_, _)
CumSum(ch, i) ==
    IF i < Len(ch)
    THEN CumSum([ch EXCEPT ![i + 1] = ch[i + 1] + ch[i]], i + 1)
    ELSE ch

Cumulative == CumSum(Chances, 1)

\* for (i = 0; i < chances.length; i++) { if (chances[i] > draw) break; }
\* The value of i after the loop, from i on.
RECURSIVE ScanFrom(_, _, _)
ScanFrom(ch, d, i) ==
    IF i < Len(ch) /\ ~(ch[i + 1] > d) THEN ScanFrom(ch, d, i + 1) ELSE i

LotteryScan(ch, d) == ScanFrom(ch, d, 0)

\* The first comparator with b.winp - a.winp for a.winp - b.winp.
ByPlayoffsAndWinpDescending(st, a, b) ==
    \/ st[a].playoffRoundsWon < st[b].playoffRoundsWon
    \/ /\ st[a].playoffRoundsWon = st[b].playoffRoundsWon
       /\ st[a].winp > st[b].winp

\* The comparator of the first sort is negative: a before b.
ByPlayoffsAndWinp(st, a, b) ==
    \/ st[a].playoffRoundsWon < st[b].playoffRoundsWon
    \/ /\ st[a].playoffRoundsWon = st[b].playoffRoundsWon
       /\ st[a].winp < st[b].winp

\* The comparator of the second sort is negative: a before b.
ByWinp(st, a, b) == st[a].winp < st[b].winp

\* The second sort made with the comparator of the first.
BeforeByFirstSort(st, second, a, b) == ByPlayoffsAndWinp(st, a, b)

\* The comparator of the sort `second` (FALSE: first round) orders a before b.
Before(st, second, a, b) ==
    IF second THEN ByWinp(st, a, b) ELSE ByPlayoffsAndWinp(st, a, b)

\* Array.prototype.sort of the array s of tids, by insertion from s[i] on
\* into `sorted`.  Elements the comparator does not order keep their order
\* (rev FALSE) or swap it (rev TRUE): the engine decides.
RECURSIVE SortFrom(_, _, _, _, _, _)
SortFrom(s, i, sorted, st, second, rev) ==
    IF i > Len(s) THEN sorted
    ELSE LET x == s[i]
             p == Cardinality({j \in 1 .. Len(sorted) :
                      IF rev THEN Before(st, second, sorted[j], x)
                      ELSE ~Before(st, second, x, sorted[j])})
         IN  SortFrom(s, i + 1,
                      SubSeq(sorted, 1, p) \o <<x>> \o SubSeq(sorted, p + 1, Len(sorted)),
                      st, second, rev)

SortTeams(s, st, second, rev) == SortFrom(s, 1, <<>>, st, second, rev)

\* draftPicksIndexed[t][r]: the records of this season for (originalTid t,
\* round r).
Indexed(dps, t, r) ==
    {d \in dps : d.season = Season /\ d.originalTid = t /\ d.round = r}

\* Every pick owned by its original team.
OwnerIsOriginalTeam(dps, t, r) == t

\* draftPicksIndexed[t][r].tid
OwnerOf(dps, t, r) == (CHOOSE d \in Indexed(dps, t, r) : TRUE).tid

\* First round - lottery winners
LotteryWinners(ts, f3, dps) ==
    [k \in 1 .. Len(f3) |->
        Pick(1, k, OwnerOf(dps, ts[f3[k] + 1], 1), ts[f3[k] + 1])]

\* The indexes not drawn, from the last team to the first.
NotDrawnDescending(ts, f3) ==
    SelectSeq([j \in 1 .. Len(ts) |-> Len(ts) - j], LAMBDA i : i \notin Range(f3))

\* The indexes i of teams with firstThree.indexOf(i) < 0, ascending.
NotDrawn(ts, f3) ==
    SelectSeq([j \in 1 .. Len(ts) |-> j - 1], LAMBDA i : i \notin Range(f3))

\* The first round's second loop without its test of firstThree.
EveryoneElseNoSkip(ts, f3, dps) ==
    [k \in 1 .. Len(ts) |-> Pick(1, 3 + k, OwnerOf(dps, ts[k], 1), ts[k])]

\* First round - everyone else, pick = 4 onwards
EveryoneElse(ts, f3, dps) ==
    LET rest == NotDrawn(ts, f3)
    IN  [k \in 1 .. Len(rest) |->
            Pick(1, 3 + k, OwnerOf(dps, ts[rest[k] + 1], 1), ts[rest[k] + 1])]

\* Second round
SecondRound(ts2, dps) ==
    [k \in 1 .. Len(ts2) |-> Pick(2, k, OwnerOf(dps, ts2[k], 2), ts2[k])]

\* Building the order throws (a property of undefined is read) when a
\* winner's index is past the end of teams or an ownership record is absent.
BuildThrows(ts, f3, dps) ==
    \/ \E k \in 1 .. Len(f3) : f3[k] >= Len(ts)
    \/ \E x \in Range(ts), r \in {1, 2} : Indexed(dps, x, r) = {}

\* Standings of a season of n teams, scenario sc.  winp counts wins; a team
\* out of the playoffs has playoffRoundsWon -1.  Scenario 0 has no two teams
\* level, scenario 1 has pairs of teams level on both keys.
StandingsOf(n, sc) ==
    LET wins(x) == IF sc = 0 THEN (7 * x + 3) % n ELSE ((7 * x + 3) % n) \div 2
        rounds(x) ==
            IF (7 * x + 3) % n < n \div 2 THEN -1
            ELSE IF sc = 0 THEN (x % 3) ELSE 0
    IN  [x \in 0 .. n - 1 |-> [winp |-> wins(x), playoffRoundsWon |-> rounds(x)]]

\* Pick ownership of seasons Season and Season + 1 for n teams: "own",
\* nothing traded; "traded", some picks of Season traded; "absent", those
\* with the record of (team 1, round 2) missing.
OwnershipOf(n, how) ==
    LET own(s) == {[season |-> s, originalTid |-> x, round |-> r, tid |-> x] :
                       x \in 0 .. n - 1, r \in {1, 2}}
        traded == {[season |-> Season, originalTid |-> x, round |-> r,
                    tid |-> IF (x + r) % 2 = 0 THEN (x + 1) % n ELSE x] :
                       x \in 0 .. n - 1, r \in {1, 2}}
        absent == [season |-> Season, originalTid |-> 1, round |-> 2, tid |-> 1]
    IN  CASE how = "own" -> own(Season) \cup own(Season + 1)
          [] how = "traded" -> traded \cup own(Season + 1)
          [] OTHER -> (traded \ {absent}) \cup own(Season + 1)

\* The leagues of the lottery specification: size, standings, ownership.
LotteryLeagues ==
    {<<30, 0, "traded">>, <<15, 1, "traded">>, <<15, 0, "absent">>, <<3, 0, "own">>}

RunIdle ==
    /\ userTid = 0
    /\ nextPhase = NoPhase
    /\ players = <<>>
    /\ LocalsIdle
    /\ HistoryIdle

InitLottery ==
    /\ \E lg \in LotteryLeagues :
          /\ numTeams = lg[1]
          /\ standings = StandingsOf(lg[1], lg[2])
          /\ draftPicks = OwnershipOf(lg[1], lg[3])
    /\ phase = DRAFT
    /\ storedOrder = <<>>
    /\ pc = "idle"
    /\ RunIdle
    /\ LotteryIdle
    /\ ScanIdle
    /\ FantasyIdle
    /\ GenerationIdle

\* genOrder(cb) is called: team.filter reads the teams of g.season.
GenOrder ==
    /\ pc = "idle"
    /\ pc' = "filter"
    /\ UNCHANGED <<globals, store, locals, history, ordering>>

\* team.filter's callback: the first sort (the lottery follows).
TeamsFiltered ==
    /\ pc = "filter"
    /\ \E rev \in BOOLEAN :
          teams' = SortTeams([j \in 1 .. numTeams |-> j - 1], standings, FALSE, rev)
    /\ firstThree' = <<>>
    /\ pc' = "lottery"
    /\ UNCHANGED <<globals, store, locals, history, league, txOpen, scan, fantasy, generation>>

\* One pass of while (firstThree.length < 3): a draw, the scan, the push of
\* an index not yet drawn.  After the third push the picks of g.season are
\* read.
LotteryDraw ==
    /\ pc = "lottery"
    /\ \E d \in 1 .. 1000 :
          LET i == LotteryScan(Cumulative, d)
          IN  firstThree' = IF i \notin Range(firstThree)
                            THEN Append(firstThree, i) ELSE firstThree
    /\ pc' = IF Len(firstThree') < 3 THEN "lottery" ELSE "getPicks"
    /\ UNCHANGED <<globals, store, locals, history, league, teams, txOpen, scan, fantasy, generation>>

\* The handler catching the error of a build that throws and saving the
\* order as far as built (nothing).
DraftPicksSuccessSavesPartial ==
    /\ pc = "getPicks"
    /\ IF BuildThrows(teams, firstThree, draftPicks)
       THEN /\ teams' = teams
            /\ draftOrder' = <<>>
       ELSE /\ \E rev \in BOOLEAN :
                  teams' = SortTeams(teams, standings, TRUE, rev)
            /\ draftOrder' = LotteryWinners(teams, firstThree, draftPicks)
                             \o EveryoneElse(teams, firstThree, draftPicks)
                             \o SecondRound(teams', draftPicks)
    /\ txOpen' = {"delete", "setOrder"}
    /\ pc' = "saving"
    /\ UNCHANGED <<globals, store, caller, playersAll, pids, pick, selection, pid,
                   txPlayer, history, league, firstThree, scan, fantasy, generation>>

\* index("season").getAll(g.season).onsuccess: the order is built, the
\* second sort made, the deletes and setOrder issued, each in a transaction
\* of its own.
DraftPicksSuccess ==
    /\ pc = "getPicks"
    /\ IF BuildThrows(teams, firstThree, draftPicks)
       THEN /\ pc' = "failed"
            /\ UNCHANGED <<teams, draftOrder, txOpen>>
       ELSE /\ \E rev \in BOOLEAN :
                  teams' = SortTeams(teams, standings, TRUE, rev)
            /\ draftOrder' = LotteryWinners(teams, firstThree, draftPicks)
                             \o EveryoneElse(teams, firstThree, draftPicks)
                             \o SecondRound(teams', draftPicks)
            /\ txOpen' = {"delete", "setOrder"}
            /\ pc' = "saving"
    /\ UNCHANGED <<globals, store, caller, playersAll, pids, pick, selection, pid,
                   txPlayer, history, league, firstThree, scan, fantasy, generation>>

\* The transaction of the deletes completes.
DeletePicksComplete ==
    /\ pc = "saving"
    /\ "delete" \in txOpen
    /\ draftPicks' = {d \in draftPicks : d.season # Season}
    /\ txOpen' = txOpen \ {"delete"}
    /\ pc' = IF txOpen' = {} THEN "done" ELSE "saving"
    /\ UNCHANGED <<globals, store, locals, history, standings, teams, firstThree,
                   scan, fantasy, generation>>

\* setOrder's tx.oncomplete: the order is stored, cb().
GenOrderSaved ==
    /\ pc = "saving"
    /\ "setOrder" \in txOpen
    /\ storedOrder' = draftOrder
    /\ cbArgs' = Append(cbArgs, <<>>)
    /\ txOpen' = txOpen \ {"setOrder"}
    /\ pc' = IF txOpen' = {} THEN "done" ELSE "saving"
    /\ UNCHANGED <<globals, players, locals, resolved, order0, runStart, league,
                   teams, firstThree, scan, fantasy, generation>>

NextLottery ==
    \/ GenOrder
    \/ TeamsFiltered
    \/ LotteryDraw
    \/ DraftPicksSuccess
    \/ DeletePicksComplete
    \/ GenOrderSaved

SpecLottery == InitLottery /\ [][NextLottery]_vars

\* ---------------------------------------------------------- the lottery scan
InitScan ==
    /\ numTeams = 30
    /\ phase = DRAFT
    /\ standings = <<>>
    /\ draftPicks = {}
    /\ storedOrder = <<>>
    /\ pc = "scan"
    /\ RunIdle
    /\ LotteryIdle
    /\ FantasyIdle
    /\ GenerationIdle
    /\ draw \in 1 .. 1000
    /\ scanI = 0

\* The for loop over chances for the draw at hand.
ScanDraw ==
    /\ pc = "scan"
    /\ scanI' = LotteryScan(Cumulative, draw)
    /\ pc' = "scanned"
    /\ UNCHANGED <<globals, store, locals, history, league, lottery, draw, fantasy, generation>>

SpecScan == InitScan /\ [][ScanDraw]_vars

\* ---------------------------------------------------------- genOrderFantasy
\* random.shuffle(tids): every order of the n tids.
Shuffles(n) ==
    {f \in [1 .. n -> 0 .. n - 1] : \A a, b \in 1 .. n : a # b => f[a] # f[b]}

\* The picks of one round over the list ts.
RoundPicks(ts, round) == [k \in 1 .. Len(ts) |-> Pick(round, k, ts[k], ts[k])]

\* The rounds without tids.reverse().
RECURSIVE SnakeNoReverse(_, _)
SnakeNoReverse(ts, round) ==
    IF round <= 12 THEN RoundPicks(ts, round) \o SnakeNoReverse(ts, round + 1)
    ELSE <<>>

\* for (round = 1; round <= 12; round++) { ...push; tids.reverse(); }
\* v is bound to the value of ts, so each round evaluates the list once.
RECURSIVE Snake(_, _)
Snake(ts, round) ==
    LET rounds(v) ==
            IF round <= 12 THEN RoundPicks(v, round) \o Snake(Reverse(v), round + 1)
            ELSE <<>>
    IN  CHOOSE r \in {rounds(v) : v \in {ts}} : TRUE

\* The loop test letting one pass more through.
ShuffleAgainOneMore(ts, i) == ts[position] # userTid /\ i <= 1000

\* The loop test of the re-shuffle loop.
ShuffleAgain(ts, i) == ts[position] # userTid /\ i < 1000

InitFantasy ==
    /\ numTeams \in 2 .. FantasyTeams
    /\ userTid = 0
    /\ phase = FANTASY_DRAFT
    /\ nextPhase = REGULAR_SEASON
    /\ players = <<>>
    /\ storedOrder = <<>>
    /\ pc = "idle"
    /\ LocalsIdle
    /\ HistoryIdle
    /\ standings = <<>>
    /\ draftPicks = {}
    /\ LotteryIdle
    /\ ScanIdle
    /\ GenerationIdle
    /\ position \in 0 .. numTeams + 1
    /\ tids = <<>>
    /\ shuffles = 0

\* After a shuffle leaving ts with i re-shuffles done, in the loop or where
\* the loop is not entered (`looping` FALSE): shuffle again, or build the
\* order and call setOrder.
AfterShuffle(ts, i, looping) ==
    /\ tids' = ts
    /\ shuffles' = i
    /\ IF looping /\ ShuffleAgain(ts, i)
       THEN pc' = "reshuffle" /\ draftOrder' = draftOrder
       ELSE pc' = "savingFantasy" /\ draftOrder' = Snake(ts, 1)

\* genOrderFantasy(position, cb) is called: the first shuffle.
GenOrderFantasy ==
    /\ pc = "idle"
    /\ \E ts \in Shuffles(numTeams) :
          AfterShuffle(ts, 0, position >= 1 /\ position <= numTeams)
    /\ UNCHANGED <<globals, store, caller, playersAll, pids, pick, selection, pid,
                   txPlayer, history, league, lottery, scan, position, generation>>

\* One pass of the while loop: random.shuffle(tids); i += 1.
Reshuffle ==
    /\ pc = "reshuffle"
    /\ \E ts \in Shuffles(numTeams) : AfterShuffle(ts, shuffles + 1, TRUE)
    /\ UNCHANGED <<globals, store, caller, playersAll, pids, pick, selection, pid,
                   txPlayer, history, league, lottery, scan, position, generation>>

\* setOrder's tx.oncomplete: the order is stored, cb().
FantasyOrderSaved ==
    /\ pc = "savingFantasy"
    /\ storedOrder' = draftOrder
    /\ cbArgs' = Append(cbArgs, <<>>)
    /\ pc' = "done"
    /\ UNCHANGED <<globals, players, locals, resolved, order0, runStart, ordering>>

NextFantasy ==
    \/ GenOrderFantasy
    \/ Reshuffle
    \/ FantasyOrderSaved

SpecFantasy == InitFantasy /\ [][NextFantasy]_vars

\* The while loop is straight-line code: once entered, it keeps running.
SpecFantasyFair == InitFantasy /\ [][NextFantasy]_vars /\ WF_vars(Reshuffle)

\* ------------------------------------------- selectPlayer in leagues of any size
\* The order of a league of n teams in which nothing was traded but pick
\* number j of the queue, which the user's team holds.
OrderWithUserPick(n, ph, j) ==
    LET orig(r, k) == IF r = 1 THEN k - 1 ELSE n - k
        at(q) == <<((q - 1) \div n) + 1, ((q - 1) % n) + 1>>
    IN  IF ph = FANTASY_DRAFT
        THEN [q \in 1 .. n |-> Pick(12, q, IF q = j THEN 0 ELSE n - q, IF q = j THEN 0 ELSE n - q)]
        ELSE [q \in 1 .. 2 * n |->
                 Pick(at(q)[1], at(q)[2],
                      IF q = j THEN 0 ELSE orig(at(q)[1], at(q)[2]),
                      orig(at(q)[1], at(q)[2]))]

\* The user's turn at any pick of a draft, in a league of any size: the
\* draft view has called selectPlayer(pick, pid).  A fantasy draft was begun
\* during the season or after it: g.nextPhase holds the phase it returns to.
InitSelect ==
    /\ OrderingIdle
    /\ numTeams \in MinTeams .. MaxTeams
    /\ userTid = 0
    /\ phase \in {DRAFT, FANTASY_DRAFT}
    /\ nextPhase \in IF phase = FANTASY_DRAFT THEN {REGULAR_SEASON, AFTER_DRAFT} ELSE {NoPhase}
    /\ players = [id \in 1 .. NumProspects |-> Prospect(id, UNDRAFTED)]
    /\ \E j \in 1 .. 2 * numTeams :
          /\ phase = FANTASY_DRAFT => j <= numTeams
          /\ LET order == OrderWithUserPick(numTeams, phase, j)
             IN  /\ order0 = order
                 /\ storedOrder = SubSeq(order, j, Len(order))
                 /\ pick = order[j]
                 /\ draftOrder = SubSeq(order, j + 1, Len(order))
    /\ pc = "selectCursor"
    /\ caller = "user"
    /\ pid = 1
    /\ playersAll = <<>>
    /\ pids = <<>>
    /\ selection = 0
    /\ txPlayer = NoPlayer
    /\ cbArgs = <<>>
    /\ resolved = <<>>
    /\ runStart = <<>>

NextSelect ==
    \/ SelectPlayerCursor
    \/ SelectPlayerComplete

SpecSelect == InitSelect /\ [][NextSelect]_vars

\* ------------------------------------------- ratings that keep evolving
\* Times the ratings of one player change in a checked behaviour.
MaxDevelop == 2

\* A change of a player's ratings (player.develop): new potential and
\* overall numbers and a new skills list replace the old ones in the
\* ratings row.  It is a transaction of its own on the players store, so it
\* runs before selectPlayer's transaction or after it has committed.
Develop(id) ==
    /\ pc \in {"selectCursor", "done"}
    /\ id \in DOMAIN players
    /\ players[id].ovr < Prospect(id, UNDRAFTED).ovr + MaxDevelop
    /\ players' = [players EXCEPT ![id].pot = @ + 1, ![id].ovr = @ + 1,
                                  ![id].skills = Append(@, "B")]
    /\ UNCHANGED <<globals, storedOrder, pc, locals, history, ordering>>

\* selectPlayer in the smallest leagues, among ratings changes.
InitRatings == InitSelect /\ numTeams <= RunTeams

NextRatings ==
    \/ SelectPlayerCursor
    \/ SelectPlayerComplete
    \/ \E id \in 1 .. NumProspects : Develop(id)

SpecRatings == InitRatings /\ [][NextRatings]_vars

\* ---------------------------------------------------------------- genPlayers
\* Math.round(70 * g.numTeams / 30): the class size when numPlayers is null.
DefaultNumPlayers(n) == (140 * n + 30) \div 60

\* baseAge and draftYear without the test for a new league: the farthest
\* class is always three years away.
AgeAndYearNoInception(tid, s, s0, ph) ==
    IF tid = UNDRAFTED_3 THEN [baseAge |-> 19 - 3, draftYear |-> s + 3]
    ELSE IF tid = UNDRAFTED_2 THEN [baseAge |-> 19 - 1, draftYear |-> s + 1]
    ELSE [baseAge |-> 19, draftYear |-> s]

\* baseAge and draftYear of the players generated for class `tid` in season
\* s and phase ph of a league begun in season s0.
AgeAndYear(tid, s, s0, ph) ==
    IF s = s0 /\ ph < DRAFT
    THEN IF tid = UNDRAFTED_2 THEN [baseAge |-> 19 - 1, draftYear |-> s + 1]
         ELSE IF tid = UNDRAFTED_3 THEN [baseAge |-> 19 - 2, draftYear |-> s + 2]
         ELSE [baseAge |-> 19, draftYear |-> s]
    ELSE IF tid = UNDRAFTED_3 THEN [baseAge |-> 19 - 3, draftYear |-> s + 3]
         ELSE [baseAge |-> 19, draftYear |-> s]

\* genPlayers is about to be called, in any season and phase of a league,
\* for any class, with or without a transaction, a scouting rank and a
\* number of players.
InitGen ==
    /\ numTeams = RunTeams
    /\ userTid = 0
    /\ phase \in FANTASY_DRAFT .. FREE_AGENCY
    /\ nextPhase = NoPhase
    /\ players = <<>>
    /\ storedOrder = <<>>
    /\ pc = "idle"
    /\ LocalsIdle
    /\ HistoryIdle
    /\ standings = <<>>
    /\ draftPicks = {}
    /\ LotteryIdle
    /\ ScanIdle
    /\ FantasyIdle
    /\ season \in Season .. Season + MaxSeasons
    /\ startingSeason \in Season .. season
    /\ genArgs \in [ot : BOOLEAN, tid : {UNDRAFTED, UNDRAFTED_2, UNDRAFTED_3},
                     scoutingRank : {Null, 1}, numPlayers : {Null, 1}]
    /\ generated = <<>>

\* withScoutingRank: the loop handing tid, baseAge and draftYear to
\* player.generate (the ratings it draws play no part in either) and
\* putting each player; with a transaction of the caller's cb() is called
\* at once, with its own after it completes.
WithScoutingRank ==
    LET n == IF genArgs.numPlayers = Null THEN DefaultNumPlayers(numTeams)
             ELSE genArgs.numPlayers
        ay == AgeAndYear(genArgs.tid, season, startingSeason, phase)
    IN  /\ generated' = [i \in 1 .. n |->
                            [tid |-> genArgs.tid, baseAge |-> ay.baseAge,
                             draftYear |-> ay.draftYear]]
        /\ IF genArgs.ot
           THEN cbArgs' = Append(cbArgs, <<>>) /\ pc' = "done"
           ELSE cbArgs' = cbArgs /\ pc' = "genCommit"

\* genPlayers(ot, tid, scoutingRank, numPlayers, cb): without a scouting
\* rank the user's team is read first.
GenPlayers ==
    /\ pc = "idle"
    /\ IF genArgs.scoutingRank = Null
       THEN pc' = "teamsGet" /\ UNCHANGED <<generated, cbArgs>>
       ELSE WithScoutingRank
    /\ UNCHANGED <<globals, store, locals, resolved, order0, runStart, league, lottery,
                   scan, fantasy, season, startingSeason, genArgs>>

\* get(g.userTid).onsuccess: the rank is found, withScoutingRank runs.
TeamsGetSuccess ==
    /\ pc = "teamsGet"
    /\ WithScoutingRank
    /\ UNCHANGED <<globals, store, locals, resolved, order0, runStart, league, lottery,
                   scan, fantasy, season, startingSeason, genArgs>>

\* tx.oncomplete of genPlayers' own transaction: cb().
GenPlayersComplete ==
    /\ pc = "genCommit"
    /\ cbArgs' = Append(cbArgs, <<>>)
    /\ pc' = "done"
    /\ UNCHANGED <<globals, store, locals, resolved, order0, runStart, ordering>>

NextGen ==
    \/ GenPlayers
    \/ TeamsGetSuccess
    \/ GenPlayersComplete

SpecGen == InitGen /\ [][NextGen]_vars

\* ================================================================== claims
\* ---- the draft in progress (Spec)

\* C1: across the resolutions of one draft (automated picks of untilUserOrEnd
\* and selectPlayer calls for the user's team) no prospect is assigned to
\* two picks: no two committed resolutions name the same prospect.
C1_NoProspectDraftedTwice ==
    \A a, b \in 1 .. Len(resolved) : a # b => resolved[a].pid # resolved[b].pid

\* The picks of the draft no committed resolution names, in queue order.
Unresolved ==
    SelectSeq(order0, LAMBDA p : \A k \in 1 .. Len(resolved) : resolved[k].pick # p)

\* C2: whenever storage can be read back, also between two automated picks
\* of one untilUserOrEnd call, the stored order is exactly the queue of the
\* picks not yet resolved.
C2_StoredOrderIsUnresolvedQueue == storedOrder = Unresolved

\* The index of the first pick of `order` the user's team owns (one past
\* the end when there is none).
FirstUserPick(order) ==
    CHOOSE j \in 1 .. Len(order) + 1 :
        /\ j <= Len(order) => order[j].tid = userTid
        /\ \A k \in 1 .. j - 1 : order[k].tid # userTid

\* C3: when untilUserOrEnd meets a head pick of the user's team it stops
\* without consuming it: the order it saves is that pick followed by all
\* later picks of the order it read, unchanged, and no automated resolution
\* is for a pick the user's team owns.
C3_PauseKeepsUserPick ==
    /\ (pc = "setOrder" /\ Len(draftOrder) > 0) =>
          /\ Head(draftOrder).tid = userTid
          /\ draftOrder = SubSeq(runStart, FirstUserPick(runStart), Len(runStart))
    /\ pc = "setAttributes" =>
          /\ Len(storedOrder) > 0
          /\ Head(storedOrder).tid = userTid
          /\ storedOrder = SubSeq(runStart, FirstUserPick(runStart), Len(runStart))
    /\ \A k \in 1 .. Len(resolved) :
          resolved[k].by = "auto" => resolved[k].pick.tid # userTid

\* A call that resolved a pick and then stopped at the user's pick, more
\* picks behind it, and saved the order.
C3_Witness ==
    /\ pc = "setAttributes"
    /\ Len(pids) > 0
    /\ Len(storedOrder) > 1
    /\ storedOrder # runStart

\* ---- genOrder (SpecLottery, SpecScan)

\* a is worse than b by (playoffRoundsWon, winPercentage) ascending.
WorseRecord(a, b) ==
    \/ standings[a].playoffRoundsWon < standings[b].playoffRoundsWon
    \/ /\ standings[a].playoffRoundsWon = standings[b].playoffRoundsWon
       /\ standings[a].winp < standings[b].winp

\* The teams with fewer than 14 teams worse than them.
WorstFourteen ==
    {x \in 0 .. numTeams - 1 :
        Cardinality({y \in 0 .. numTeams - 1 : WorseRecord(y, x)}) < 14}

\* genOrder has stored its order and called back.
GenOrderDone == pc \in {"saving", "done"} /\ Len(cbArgs) > 0

\* C4: the three lottery winners are three distinct teams, each one of the
\* 14 worst teams by (playoffRoundsWon, winPercentage), and they hold
\* round-1 picks 1, 2 and 3.
C4_WinnersAmongWorstFourteen ==
    GenOrderDone =>
        /\ \A k \in 1 .. 3 :
              /\ storedOrder[k].round = 1
              /\ storedOrder[k].pick = k
              /\ storedOrder[k].originalTid \in WorstFourteen
        /\ \A k, m \in 1 .. 3 :
              k # m => storedOrder[k].originalTid # storedOrder[m].originalTid

\* C5: the cumulative table ends at 1000 and the scan selects, for every
\* draw d in 1..1000, the index i with cumulative[i-1] < d <= cumulative[i]
\* (cumulative[-1] = 0).
C5_ScanSelectsBucketOfDraw ==
    /\ Cumulative[Len(Cumulative)] = 1000
    /\ pc = "scanned" =>
          /\ scanI < Len(Cumulative)
          /\ (IF scanI = 0 THEN 0 ELSE Cumulative[scanI]) < draw
          /\ draw <= Cumulative[scanI + 1]

\* C6: every order genOrder stores has exactly numTeams picks in each of
\* rounds 1 and 2, no other round, and in each round every pick number
\* 1..numTeams exactly once.
C6_EverySlotOnce ==
    GenOrderDone =>
        /\ Len(storedOrder) = 2 * numTeams
        /\ \A k \in 1 .. Len(storedOrder) : storedOrder[k].round \in {1, 2}
        /\ \A r \in {1, 2}, p \in 1 .. numTeams :
              Cardinality({k \in 1 .. Len(storedOrder) :
                  storedOrder[k].round = r /\ storedOrder[k].pick = p}) = 1

\* An order stored after the scan ran off the end of the table (index 14
\* drawn), in a league of 15 teams.
C6_Witness ==
    /\ GenOrderDone
    /\ numTeams = 15
    /\ 14 \in Range(firstThree)

\* C7 as claimed: in a 30-team draft round-1 pick 4 is the original pick
\* of the 15th-worst team, the team with exactly 14 teams worse than it.
C7_PickFourIsFifteenthWorst ==
    (GenOrderDone /\ numTeams = 30) =>
        Cardinality({y \in 0 .. numTeams - 1 :
            WorseRecord(y, storedOrder[4].originalTid)}) = 14

\* C7 amended: in a 30-team draft round-1 pick 4 is the original pick of
\* the worst team that did not win the lottery: it is no winner and every
\* team worse than it is one.
C7_PickFourIsWorstNonWinner ==
    (GenOrderDone /\ numTeams = 30) =>
        LET winners == {storedOrder[k].originalTid : k \in 1 .. 3}
            x == storedOrder[4].originalTid
        IN  /\ storedOrder[4].round = 1
            /\ storedOrder[4].pick = 4
            /\ x \notin winners
            /\ \A y \in 0 .. numTeams - 1 : WorseRecord(y, x) => y \in winners

\* A 30-team order stored after the worst team won no lottery pick: pick 4
\* is the worst team's.
C7_Witness ==
    /\ GenOrderDone
    /\ numTeams = 30
    /\ 0 \notin Range(firstThree)
    /\ Cardinality({y \in 0 .. numTeams - 1 :
           WorseRecord(y, storedOrder[4].originalTid)}) = 0

\* ---- genOrderFantasy (SpecFantasy)

\* C8: the fantasy order has 12 rounds of numTeams picks; every even round
\* lists the teams in the reverse of round 1, every odd round as round 1,
\* and each pick's owner is its original team.
C8_SnakeRounds ==
    (pc = "done" /\ Len(cbArgs) > 0) =>
        /\ Len(storedOrder) = 12 * numTeams
        /\ \A r \in 1 .. 12, k \in 1 .. numTeams :
              LET p == storedOrder[(r - 1) * numTeams + k]
              IN  /\ p.round = r
                  /\ p.pick = k
                  /\ p.tid = p.originalTid
                  /\ p.tid = IF r % 2 = 0 THEN storedOrder[numTeams + 1 - k].tid
                             ELSE storedOrder[k].tid

\* A stored fantasy order of the largest league, made after a re-shuffle.
C8_Witness ==
    /\ pc = "done"
    /\ Len(cbArgs) > 0
    /\ numTeams > 2
    /\ shuffles > 0
    /\ storedOrder[numTeams + 1].tid # storedOrder[1].tid

\* ---- getRookieSalaries, selectPlayer (SpecSelect)

\* C9: for every numTeams in 2..40 the schedule has exactly 2 * numTeams
\* entries and never increases from one entry to the next.
C9_ScheduleLengthAndOrder ==
    LET s == getRookieSalaries(numTeams)
    IN  /\ Len(s) = 2 * numTeams
        /\ \A k \in 1 .. Len(s) - 1 : s[k] >= s[k + 1]

\* The last pick of a draft of more than 30 teams, signed from the padded
\* end of the schedule.
C9_Witness ==
    /\ pc = "done"
    /\ phase = DRAFT
    /\ numTeams > 30
    /\ pick.round = 2
    /\ pick.pick = numTeams
    /\ players[pid].contract.amount = 500

\* C10: outside fantasy-draft mode selectPlayer gives the prospect a
\* contract of the schedule entry at (pickNumber-1) + numTeams*(round-1),
\* expiring 4 - round seasons after the current one (3 for round 1, 2 for
\* round 2); with 30 teams 5000 for round 1 pick 1, 500 for round 2 pick 1.
C10_RookieContract ==
    (pc = "done" /\ phase # FANTASY_DRAFT) =>
        LET c == players[pid].contract
        IN  /\ c.amount = getRookieSalaries(numTeams)
                              [(pick.pick - 1) + numTeams * (pick.round - 1) + 1]
            /\ c.exp = Season + (4 - pick.round)
            /\ pick.round = 1 => c.exp - Season = 3
            /\ pick.round = 2 => c.exp - Season = 2
            /\ (numTeams = 30 /\ pick.round = 1 /\ pick.pick = 1) => c.amount = 5000
            /\ (numTeams = 30 /\ pick.round = 2 /\ pick.pick = 1) => c.amount = 500

\* Round 2 pick 1 of a 30-team draft, resolved.
C10_Witness ==
    /\ pc = "done"
    /\ phase = DRAFT
    /\ numTeams = 30
    /\ pick.round = 2
    /\ pick.pick = 1
    /\ players[pid].contract = [amount |-> 500, exp |-> Season + 2]

\* ---- selectPlayer and untilUserOrEnd, continued (Spec)

\* Some committed resolution names prospect id.
AlreadyDrafted(id) == \E k \in 1 .. Len(resolved) : resolved[k].pid = id

\* C11: a selectPlayer call for a prospect that has already been drafted
\* fails with an error and leaves that prospect's record (team, draft
\* record, contract) as it was: no step changes the record of a drafted
\* prospect, and the cursor step of such a call ends in failure.
C11_DraftedProspectRejected ==
    [][/\ \A id \in DOMAIN players :
             AlreadyDrafted(id) => players'[id] = players[id]
       /\ (pc = "selectCursor" /\ AlreadyDrafted(pid)) => pc' = "failed"]_vars

\* An automated resolution is in flight: its pick is dequeued, its prospect
\* chosen, its transaction not yet complete.
AutoInFlight == caller = "auto" /\ pc \in {"selectCursor", "selectCommit"}

\* C12: during an untilUserOrEnd run one resolution at most is in flight and
\* the picks are resolved in queue order: the k-th resolution of the run is
\* the k-th pick of the order the run read; a pick is dequeued and its
\* prospect chosen only when every earlier pick of the run is committed to
\* the players store; and the prospects chosen earlier are out of the ranked
\* pool the choice is made from.
C12_OneResolutionInQueueOrder ==
    caller = "auto" =>
        /\ Len(pids) <= Len(resolved)
        /\ \A k \in 1 .. Len(pids) :
              /\ resolved[Len(resolved) - Len(pids) + k] =
                     [pick |-> runStart[k], pid |-> pids[k], by |-> "auto"]
              /\ players[pids[k]].tid = runStart[k].tid
              /\ pids[k] \notin Range(playersAll)
        /\ AutoInFlight =>
              /\ pick = runStart[Len(pids) + 1]
              /\ draftOrder = SubSeq(runStart, Len(pids) + 2, Len(runStart))
              /\ pid = playersAll[selection + 1]
              /\ pid \notin Range(pids)
              /\ players[pid].tid = UNDRAFTED

\* The third pick of a run in flight, a prospect other than the best
\* remaining one chosen for it.
C12_Witness ==
    /\ AutoInFlight
    /\ pc = "selectCommit"
    /\ Len(pids) = 2
    /\ selection > 0

\* C13: in every automated pick the selected index lies in
\* 0 .. (remaining pool size - 1), whatever the Gaussian draw, so the pick
\* resolves to a prospect of the pool: once autoSelectPlayer has drawn its
\* index, the index is inside the ranked pool and the resolution goes on.
C13_SelectionInsidePool ==
    (caller = "auto" /\ pc \in {"selectCursor", "selectCommit", "failed"}) =>
        /\ selection < Len(playersAll)
        /\ pc # "failed"

\* ---- genOrder, continued (SpecLottery)

\* The original teams of the picks of round r, in the stored order.
RoundTeams(r) ==
    LET picks == SelectSeq(storedOrder, LAMBDA p : p.round = r)
    IN  [k \in 1 .. Len(picks) |-> picks[k].originalTid]

\* C14: in the order genOrder stores, round-1 picks 4..N go to the teams
\* that won no lottery pick, in ascending (playoffRoundsWon, winPercentage)
\* order, and in each round every team is the original team of exactly one
\* pick.
C14_RestOfRoundOneAscending ==
    GenOrderDone =>
        LET winners == {storedOrder[k].originalTid : k \in 1 .. 3}
        IN  /\ \A k \in 4 .. numTeams :
                  /\ storedOrder[k].round = 1
                  /\ storedOrder[k].pick = k
                  /\ storedOrder[k].originalTid \notin winners
            /\ \A k, m \in 4 .. numTeams :
                  k < m => ~WorseRecord(storedOrder[m].originalTid,
                                        storedOrder[k].originalTid)
            /\ \A r \in {1, 2} :
                  /\ Len(RoundTeams(r)) = numTeams
                  /\ Range(RoundTeams(r)) = 0 .. numTeams - 1

\* A stored order in which the lottery moved a team ahead of a worse one
\* (the team of pick 4 is worse than the winner of pick 1) and two teams
\* level on both keys follow each other after pick 4.
C14_Witness ==
    /\ GenOrderDone
    /\ WorseRecord(storedOrder[4].originalTid, storedOrder[1].originalTid)
    /\ \E k \in 5 .. numTeams - 1 :
          /\ ~WorseRecord(storedOrder[k].originalTid, storedOrder[k + 1].originalTid)
          /\ ~WorseRecord(storedOrder[k + 1].originalTid, storedOrder[k].originalTid)

\* C15: in the order genOrder stores, round-2 picks 1..N go to the teams in
\* ascending win percentage alone, whatever the playoff rounds won and
\* whatever the lottery drew.
C15_RoundTwoByWinpOnly ==
    GenOrderDone =>
        /\ Len(storedOrder) = 2 * numTeams
        /\ \A k \in 1 .. numTeams :
              /\ storedOrder[numTeams + k].round = 2
              /\ storedOrder[numTeams + k].pick = k
        /\ \A k, m \in 1 .. numTeams :
              k < m => standings[storedOrder[numTeams + k].originalTid].winp
                           <= standings[storedOrder[numTeams + m].originalTid].winp

\* A stored order whose second round puts a team ahead of one that won
\* fewer playoff rounds, after a lottery that did not follow the standings.
C15_Witness ==
    /\ GenOrderDone
    /\ firstThree # <<0, 1, 2>>
    /\ \E k, m \in 1 .. numTeams :
          /\ k < m
          /\ standings[storedOrder[numTeams + k].originalTid].playoffRoundsWon
                 > standings[storedOrder[numTeams + m].originalTid].playoffRoundsWon

\* The ownership record of the current season keyed by (original team t,
\* round r) exists, is the only one, and names `owner`.
RecordedOwner(t, r, owner) ==
    \E d \in draftPicks :
        /\ d.season = Season /\ d.originalTid = t /\ d.round = r
        /\ d.tid = owner
        /\ \A e \in draftPicks :
              (e.season = Season /\ e.originalTid = t /\ e.round = r) => e = d

\* C16: every pick of the order genOrder builds has as its current owner
\* the owner recorded in the ownership record keyed by (the pick's original
\* team, the pick's round): while the records are still in the store, every
\* pick of the order built, and of the order stored, carries that owner.
C16_OwnerFromOwnershipRecord ==
    (pc = "saving" /\ "delete" \in txOpen) =>
        /\ \A k \in 1 .. Len(draftOrder) :
              RecordedOwner(draftOrder[k].originalTid, draftOrder[k].round,
                            draftOrder[k].tid)
        /\ \A k \in 1 .. Len(storedOrder) :
              RecordedOwner(storedOrder[k].originalTid, storedOrder[k].round,
                            storedOrder[k].tid)

\* An order stored, the records not yet deleted, with a lottery pick and a
\* second-round pick that were traded.
C16_Witness ==
    /\ pc = "saving"
    /\ "delete" \in txOpen
    /\ Len(storedOrder) = 2 * numTeams
    /\ \E k \in 1 .. 3 : storedOrder[k].tid # storedOrder[k].originalTid
    /\ \E k \in numTeams + 1 .. 2 * numTeams :
          storedOrder[k].tid # storedOrder[k].originalTid

\* Some (team, round) pair with round in {1, 2} has no ownership record of
\* the current season.
MissingOwnershipRecord ==
    \E x \in 0 .. numTeams - 1, r \in {1, 2} :
        \A d \in draftPicks :
            ~(d.season = Season /\ d.originalTid = x /\ d.round = r)

\* C17: if the ownership record of some (team, round) pair is missing when
\* genOrder reads the records, genOrder aborts: it stores no order (the
\* stored order stays as it was), opens no transaction, deletes no record
\* and does not call back; and once aborted it does nothing more.
C17_MissingRecordAborts ==
    [][/\ (pc = "getPicks" /\ MissingOwnershipRecord) =>
             /\ pc' = "failed"
             /\ storedOrder' = storedOrder
             /\ draftPicks' = draftPicks
             /\ txOpen' = {}
             /\ cbArgs' = cbArgs
       /\ pc = "failed" => UNCHANGED <<pc, storedOrder, draftPicks, cbArgs>>]_vars

\* genOrder aborted for a missing record alone: every index drawn has a
\* team, and nothing is stored.
C17_Witness ==
    /\ pc = "failed"
    /\ MissingOwnershipRecord
    /\ Len(firstThree) = 3
    /\ \A k \in 1 .. 3 : firstThree[k] < numTeams
    /\ storedOrder = <<>>
    /\ cbArgs = <<>>

\* C18: in every state in which genOrder has reported completion (its
\* callback has run) the new order is stored and no ownership record of the
\* current season remains in the draftPicks store.
C18_RecordsDeletedAtCompletion ==
    GenOrderDone =>
        /\ storedOrder = draftOrder
        /\ Len(storedOrder) = 2 * numTeams
        /\ \A d \in draftPicks : d.season # Season

\* ---- untilUserOrEnd's completion (Spec)

\* An untilUserOrEnd run has ended when its callback has been called.
\* The callback is called at most once, and only in the final state of the
\* run; by then the stored order is the order the run read less the picks it
\* resolved, at its head the user's pick if any; the argument is pids, the
\* prospects of the run's resolutions in the order of the picks.
CallbackOnceAfterSave ==
    caller = "auto" =>
        /\ Len(cbArgs) <= 1
        /\ (pc = "done") <=> (Len(cbArgs) = 1)
        /\ Len(cbArgs) = 1 =>
              /\ cbArgs[1] = pids
              /\ storedOrder = SubSeq(runStart, Len(pids) + 1, Len(runStart))
              /\ Len(storedOrder) > 0 => Head(storedOrder).tid = userTid
              /\ Len(pids) <= Len(resolved)
              /\ \A k \in 1 .. Len(pids) :
                    resolved[Len(resolved) - Len(pids) + k] =
                        [pick |-> runStart[k], pid |-> pids[k], by |-> "auto"]

\* C19 as claimed: a run that ends calls back exactly once, after the save,
\* with the prospects it drafted in order, and the phase is after-draft if
\* and only if the run ended with an empty queue.
C19_AfterDraftIffQueueEmpty ==
    /\ CallbackOnceAfterSave
    /\ phase = AFTER_DRAFT <=> (caller = "auto" /\ pc = "done" /\ Len(storedOrder) = 0)

\* C19 amended: a run that ends calls back exactly once, after the save,
\* with the prospects it drafted in order; the phase changes if and only if
\* the run ended with an empty queue, never on a pause: to after-draft in a
\* normal draft, to the saved next phase in a fantasy draft.
C19_PhaseLeftIffQueueEmpty ==
    /\ [](/\ CallbackOnceAfterSave
          /\ (caller = "auto" /\ pc = "done" /\ Len(storedOrder) = 0) => ~InDraft
          /\ (pc = "done" /\ Len(storedOrder) > 0) => InDraft)
    /\ [][phase' # phase =>
             /\ caller = "auto"
             /\ pc' = "done"
             /\ Len(storedOrder) = 0
             /\ phase' = IF phase = FANTASY_DRAFT THEN nextPhase ELSE AFTER_DRAFT]_vars

\* A fantasy draft's last run ended: picks resolved, the queue empty, the
\* callback called, the phase the saved next phase and not after-draft.
C19_Witness ==
    /\ caller = "auto"
    /\ pc = "done"
    /\ Len(cbArgs) = 1
    /\ Len(pids) > 0
    /\ Len(storedOrder) = 0
    /\ phase = REGULAR_SEASON

\* The players carrying pool tag `tag`.
Tagged(tag) == {id \in DOMAIN players : players[id].tid = tag}

\* C20: when a fantasy draft completes, first every player still tagged
\* undrafted becomes a free agent, then every player parked under the
\* temporary tag is re-tagged as the draft class, and only then the phase
\* is set to the saved next phase; no parked player becomes a free agent,
\* and afterwards no player carries the temporary tag.
C20_FantasyCleanupInOrder ==
    /\ [](/\ pc = "swapBack" => (Tagged(UNDRAFTED) = {} /\ phase = FANTASY_DRAFT)
          /\ pc = "setPhase" =>
                (Tagged(UNDRAFTED_FANTASY_TEMP) = {} /\ phase = FANTASY_DRAFT)
          /\ (pc = "done" /\ ~InDraft /\ phase # AFTER_DRAFT) =>
                (Tagged(UNDRAFTED_FANTASY_TEMP) = {} /\ phase = REGULAR_SEASON))
    /\ [][/\ \A id \in Tagged(UNDRAFTED_FANTASY_TEMP) :
                players'[id].tid # FREE_AGENT
          /\ (\E id \in DOMAIN players :
                  players'[id].tid = FREE_AGENT /\ players[id].tid # FREE_AGENT) =>
                /\ pc = "freeAgents"
                /\ Len(storedOrder) = 0
                /\ \A j \in DOMAIN players :
                      players'[j].tid = IF players[j].tid = UNDRAFTED
                                        THEN FREE_AGENT ELSE players[j].tid
          /\ (\E id \in Tagged(UNDRAFTED_FANTASY_TEMP) :
                  players'[id].tid = UNDRAFTED) =>
                /\ Tagged(UNDRAFTED) = {}
                /\ \A j \in DOMAIN players :
                      players'[j].tid = IF players[j].tid = UNDRAFTED_FANTASY_TEMP
                                        THEN UNDRAFTED ELSE players[j].tid
          /\ (phase = FANTASY_DRAFT /\ phase' # phase) =>
                /\ pc = "setPhase"
                /\ Tagged(UNDRAFTED_FANTASY_TEMP) = {}
                /\ phase' = nextPhase]_vars

\* A fantasy draft completed: a player left over became a free agent, the
\* parked player is back in the draft class, the phase is the next phase.
C20_Witness ==
    /\ pc = "done"
    /\ phase = REGULAR_SEASON
    /\ Tagged(FREE_AGENT) # {}
    /\ players[NumProspects].tid = UNDRAFTED
    /\ Len(resolved) > 0

\* ---- termination of untilUserOrEnd (SpecFair)

\* The steps of a call in progress: completions of storage operations and
\* the callbacks they run.
RunSteps ==
    \/ GetPlayersSuccess
    \/ GetOrderSuccess
    \/ SelectPlayerCursor
    \/ SelectPlayerComplete
    \/ SetOrderComplete
    \/ NewPhaseDone
    \/ SetAttributesDone
    \/ FantasyFreeAgents
    \/ FantasySwapBack
    \/ FantasySetPhase

\* The draft in progress where every storage operation issued eventually
\* completes.  Nothing obliges the user to draft or to start a run.
SpecFair == InitRun /\ [][NextRun]_vars /\ WF_vars(RunSteps)

\* The picks the run has taken off its working order and not yet resolved.
PicksInFlight == IF AutoInFlight THEN 1 ELSE 0

\* C21: every untilUserOrEnd run started on a finite order eventually ends,
\* paused at the user's pick, complete, or failed, provided every storage
\* operation eventually completes; each pass of the loop takes exactly one
\* pick off the queue, so the resolutions of a run never outnumber the picks
\* of the order it read.
C21_RunEndsWithinQueueLength ==
    /\ []((caller = "auto" /\ pc \notin {"getPlayers", "getOrder", "failed"}) =>
             /\ Len(pids) + PicksInFlight + Len(draftOrder) = Len(runStart)
             /\ Len(pids) <= Len(runStart))
    /\ (caller = "auto" /\ pc = "getPlayers")
           ~> (caller = "auto" /\ pc \in {"done", "failed"})

\* A run that resolved every pick of a full two-round order and ended.
C21_Witness ==
    /\ caller = "auto"
    /\ pc = "done"
    /\ Len(runStart) = 2 * numTeams
    /\ Len(pids) = Len(runStart)
    /\ Len(storedOrder) = 0

\* ---- selectPlayer's effects (Spec, SpecSelect)

\* selectPlayer is at its cursor for a pid the players store does not hold.
UnknownProspect == pc = "selectCursor" /\ pid \notin DOMAIN players

\* C22: selectPlayer called with a prospect id that resolves to no stored
\* player surfaces the failure to its caller, whose only channel is the
\* callback, and leaves the draft state unchanged: no player record is
\* modified and the stored order is unchanged.
C22_UnknownProspectSurfaced ==
    [][UnknownProspect =>
          /\ players' = players
          /\ storedOrder' = storedOrder
          /\ Len(cbArgs') = Len(cbArgs) + 1]_vars

C24_StatsRowIffMidSeason ==
    pc = "done" =>
        (players[pid].stats = Prospect(pid, UNDRAFTED).stats + 1
            <=> (phase = FANTASY_DRAFT /\ nextPhase <= PLAYOFFS))

\* ---- genOrderFantasy, continued (SpecFantasyFair)

\* genOrderFantasy was given a slot its loop is entered for.
SlotGiven == position >= 1 /\ position <= numTeams

\* C25: with a preferred slot in 1..numTeams the re-shuffle loop ends after
\* at most 1000 re-shuffles, every pass counting one; the stored round 1 is
\* the last shuffle, with the user's team at the preferred slot unless 1000
\* re-shuffles were done; with no slot or one outside 1..numTeams there is
\* the first shuffle and no re-shuffle.
C25_ReshuffleBounded ==
    /\ [](shuffles <= 1000)
    /\ [][pc = "reshuffle" => shuffles' = shuffles + 1]_vars
    /\ (pc = "reshuffle") ~> (pc = "savingFantasy")
    /\ [](pc = "done" =>
            /\ \A k \in 1 .. numTeams : storedOrder[k].tid = tids[k]
            /\ SlotGiven => (storedOrder[position].tid = userTid \/ shuffles = 1000)
            /\ ~SlotGiven => shuffles = 0)

\* The bound was reached without the user's team at the preferred slot, and
\* the last shuffle was stored.
C25_Witness ==
    /\ pc = "done"
    /\ SlotGiven
    /\ shuffles = 1000
    /\ storedOrder[position].tid # userTid
    /\ storedOrder[position].tid = tids[position]

\* ---- genPlayers (SpecGen)

\* The league is at its inception: in its starting season, before the draft.
Inception == season = startingSeason /\ phase < DRAFT

\* A draft of the league has concluded: this season's, or an earlier one's.
DraftConcluded == phase > DRAFT \/ season > startingSeason

\* C26: in every season and phase and for every class, the players
\* genPlayers generates have (base age, draft year) = (19, season),
\* (18, season + 1), (17, season + 2) for the current, next and next-next
\* class when the league is at its inception, and (16, season + 3) for the
\* farthest class when a draft has concluded.
C26_AgesAndDraftYears ==
    \A i \in 1 .. Len(generated) :
        LET r == generated[i]
            is(age, year) == r.baseAge = age /\ r.draftYear = year
        IN  /\ (Inception /\ r.tid = UNDRAFTED) => is(19, season)
            /\ (Inception /\ r.tid = UNDRAFTED_2) => is(18, season + 1)
            /\ (Inception /\ r.tid = UNDRAFTED_3) => is(17, season + 2)
            /\ (DraftConcluded /\ r.tid = UNDRAFTED_3) => is(16, season + 3)

\* The farthest class of the default size, generated after the draft of a
\* later season.
C26_Witness ==
    /\ pc = "done"
    /\ season > startingSeason
    /\ phase = AFTER_DRAFT
    /\ Len(generated) = DefaultNumPlayers(numTeams)
    /\ generated[1] = [tid |-> UNDRAFTED_3, baseAge |-> 16, draftYear |-> season + 3]

====
